---- MODULE Spec2Model ----
(***************************************************************************)
(* Filter-and-aggregate pipeline of the fraud dashboards.                  *)
(*                                                                         *)
(*   src/app.py       heat-map variant: load_data drops VELOCITY rows and  *)
(*                    the two transaction-type columns; five include-set   *)
(*                    filters; daily loss table, rates, pivot, geo join.   *)
(*   src/data/app.py  basic variant: plain load; two include-set filters;  *)
(*                    daily rate and rate by country.                      *)
(*                                                                         *)
(* A Streamlit script is executed top to bottom on every interaction, so   *)
(* one action is one complete execution of the script.  A table is a       *)
(* sequence of rows, a row a record keyed by column name.  A timestamp is  *)
(* [y, m, d, h]; a missing value (NaN / None) is Null.  A rate is kept     *)
(* exactly, as the fraction num / den.                                     *)
(***************************************************************************)
EXTENDS Integers, Sequences, FiniteSets, TLC

VARIABLES script, file, cache, pc, widgets,
          view, fraud_view, daily, daily_rate, by_country,
          fraud_month_pos, country_vol

vars == <<script, file, cache, pc, widgets, view, fraud_view, daily,
          daily_rate, by_country, fraud_month_pos, country_vol>>

outputs == <<view, fraud_view, daily, daily_rate, by_country,
             fraud_month_pos, country_vol>>

\* Longest source file (in rows) the model reads.
MaxRows == 2

Null == "NaN"
\* st.cache_data keeps at most one entry for load_data(): none before the
\* first call, then the table that call returned.
NoEntry == <<>>

-----------------------------------------------------------------------------
(* Values                                                                  *)

TS(y, m, d, h) == [y |-> y, m |-> m, d |-> d, h |-> h]
Date(y, m, d) == [y |-> y, m |-> m, d |-> d]

\* Series.dt.date: the calendar day of a timestamp, time of day dropped.
DtDate(ts) == [y |-> ts.y, m |-> ts.m, d |-> ts.d]

\* Series.dt.to_period("M").astype(str): "YYYY-MM", here [y, m].
ToPeriodM(ts) == [y |-> ts.y, m |-> ts.m]

\* Chronological position of a date / of a month ("YYYY-MM" sorts the same).
DateOrd(d) == (d.y * 12 + (d.m - 1)) * 31 + (d.d - 1)
MonthOrd(p) == p.y * 12 + (p.m - 1)

\* Lexicographic order of the strings that occur as group keys.
Collation == <<"CHIP", "CTLS", "FR", "GB", "ZZ">>
StrOrd(s) == CHOOSE i \in 1..Len(Collation) : Collation[i] = s

\* str.upper() on the fraud-type spellings of the model.
StrUpper(s) ==
    CASE s = "Velocity" -> "VELOCITY"
      [] s = "velocity" -> "VELOCITY"
      [] OTHER -> s

Row(ts, fr, ft, mcc, pos, mn, cty, amt, ttc, ttd) ==
    [transaction_date_time  |-> ts,
     fraud                  |-> fr,
     fraud_type             |-> ft,
     merchant_category_code |-> mcc,
     pos_entry_desc         |-> pos,
     merchant_name          |-> mn,
     merchant_country_code  |-> cty,
     transaction_amount     |-> amt,
     transaction_type_code  |-> ttc,
     transaction_type_desc  |-> ttd]

\* Rows a source file is made of.
SampleRows ==
    { Row(TS(2024, 1, 30, 23), 1, "CNP",      "5411", "CHIP", "ACME", "GB", 10, "P", "PURCHASE"),
      Row(TS(2024, 1, 31,  9), 1, "CNP",      "5411", "CTLS", "ACME", "ZZ", 25, "P", "PURCHASE"),
      Row(TS(2024, 2,  1,  0), 1, "CNP",      "5411", "CHIP", "ACME", "GB",  5, "P", "PURCHASE"),
      Row(TS(2024, 2,  1,  0), 1, "CNP",      Null,   Null,   Null,   Null,  7, Null, Null),
      Row(TS(2024, 1, 30, 23), 0, Null,       "5411", "CHIP", "ACME", "GB", 40, "P", "PURCHASE"),
      Row(TS(2024, 1, 31,  9), 1, "Velocity", "5411", "CHIP", "ACME", "GB", 30, "P", "PURCHASE") }

\* The source files: non-empty tables of at most MaxRows rows.
Tables == UNION { [1..n -> SampleRows] : n \in 1..MaxRows }

\* Days the date-range widget can be set to.
DateChoices == { Date(2024, 1, 30), Date(2024, 2, 1) }

-----------------------------------------------------------------------------
(* Generic table helpers                                                   *)

Range(s) == { s[i] : i \in DOMAIN s }

\* df[mask]: the rows whose mask entry is TRUE, in order.
RECURSIVE BoolIndex(_, _)
BoolIndex(t, mask) ==
    IF t = <<>> THEN <<>>
    ELSE LET rest == BoolIndex(Tail(t), Tail(mask))
         IN  IF Head(mask) THEN <<Head(t)>> \o rest ELSE rest

\* The elements of S in increasing order of ord[x] (ord is injective on S).
RECURSIVE SortBy(_, _)
SortBy(S, ord) ==
    IF S = {} THEN <<>>
    ELSE LET x == CHOOSE a \in S : \A b \in S : ord[a] <= ord[b]
         IN  <<x>> \o SortBy(S \ {x}, ord)

\* Series.sum() / count over the elements of a sequence of numbers.
RECURSIVE SeqSum(_)
SeqSum(s) == IF s = <<>> THEN 0 ELSE Head(s) + SeqSum(Tail(s))

\* The column col of table t as a sequence.
Col(t, col) == [i \in DOMAIN t |-> t[i][col]]

\* Series.dropna(): the non-missing entries.
RECURSIVE DropNa(_)
DropNa(s) ==
    IF s = <<>> THEN <<>>
    ELSE IF Head(s) = Null THEN DropNa(Tail(s)) ELSE <<Head(s)>> \o DropNa(Tail(s))

-----------------------------------------------------------------------------
(* Group-by building blocks                                                *)

\* The rows of t whose key (keys[i] for row i) equals k, in order.
GroupRows(t, keys, k) == BoolIndex(t, [i \in DOMAIN t |-> keys[i] = k])

\* MeanMul100 dividing by the number of fraud rows instead of all rows.
MeanMul100_OverFraud(s) == [num |-> 100 * SeqSum(s), den |-> SeqSum(s)]

\* Series.mean() of a 0/1 column, then .mul(100), as an exact fraction.
MeanMul100(s) == [num |-> 100 * SeqSum(s), den |-> Len(s)]

RateLE(a, b) == a.num * b.den <= b.num * a.den

\* GroupCumSum without the grouping: one running sum over all rows.
GroupCumSum_Global(grp, vals, acc) ==
    [j \in DOMAIN vals |-> SeqSum(SubSeq(vals, 1, j))]

\* groupby(...).cumsum(): running sum of vals within each group of grp, in
\* row order; acc holds the running total of every group.
RECURSIVE GroupCumSum(_, _, _)
GroupCumSum(grp, vals, acc) ==
    IF grp = <<>> THEN <<>>
    ELSE LET tot == acc[Head(grp)] + Head(vals)
         IN  <<tot>> \o GroupCumSum(Tail(grp), Tail(vals),
                                    [acc EXCEPT ![Head(grp)] = tot])

\* Series.sort_values(ascending=False): largest value first, equal values in
\* their existing order.
RECURSIVE SortValuesDesc(_)
SortValuesDesc(s) ==
    IF s = <<>> THEN <<>>
    ELSE LET i == CHOOSE a \in DOMAIN s :
                     /\ \A b \in DOMAIN s : RateLE(s[b].value, s[a].value)
                     /\ \A b \in 1..(a - 1) : ~RateLE(s[a].value, s[b].value)
             rest == [j \in 1..(Len(s) - 1) |-> IF j < i THEN s[j] ELSE s[j + 1]]
         IN  <<s[i]>> \o SortValuesDesc(rest)

\* Rows kept by .head(15).
TopN == 15

HeadRows(s, n) == SubSeq(s, 1, IF Len(s) < n THEN Len(s) ELSE n)

\* Series with a (month, column) MultiIndex -> frame: one row per month, one
\* column per second-level key, absent combinations filled with fill.
Unstack(series, fill) ==
    LET ks   == DOMAIN series
        idx  == { k[1] : k \in ks }
        cols == { k[2] : k \in ks }
    IN  [index   |-> SortBy(idx,  [p \in idx  |-> MonthOrd(p)]),
         columns |-> SortBy(cols, [c \in cols |-> StrOrd(c)]),
         cell    |-> [k \in idx \X cols |->
                         IF k \in ks THEN series[k] ELSE fill]]

-----------------------------------------------------------------------------
(* src/app.py                                                              *)

\* The .str accessor exists only on a column holding strings: a non-empty
\* fraud_type column with every value missing is read as float64 and
\* fraud_type.str raises AttributeError.
QueryRaises(f) == f # <<>> /\ \A i \in DOMAIN f : f[i].fraud_type = Null

\* QueryKeeps comparing without str.upper().
QueryKeeps_CaseSensitive(r) == r.fraud_type # "VELOCITY"

\* fraud_type.str.upper() != 'VELOCITY' (NaN != 'VELOCITY' is True).
QueryKeeps(r) ==
    IF r.fraud_type = Null THEN TRUE ELSE StrUpper(r.fraud_type) # "VELOCITY"

\* .drop(columns=[...], errors="ignore")
DropColumns(t, cols) ==
    [i \in DOMAIN t |-> [c \in (DOMAIN t[i]) \ cols |-> t[i][c]]]

load_data(f) ==
    IF QueryRaises(f) THEN [raised |-> TRUE, df |-> <<>>]
    ELSE [raised |-> FALSE,
          df |-> DropColumns(BoolIndex(f, [i \in DOMAIN f |-> QueryKeeps(f[i])]),
                             {"transaction_type_code", "transaction_type_desc"})]

Dates(df) == { DtDate(df[i].transaction_date_time) : i \in DOMAIN df }
date_min(df) == CHOOSE d \in Dates(df) : \A e \in Dates(df) : DateOrd(d) <= DateOrd(e)
date_max(df) == CHOOSE d \in Dates(df) : \A e \in Dates(df) : DateOrd(e) <= DateOrd(d)

\* Between with the two ends put in order first.
Between_Normalised(d, left, right) ==
    \/ DateOrd(left) <= DateOrd(d) /\ DateOrd(d) <= DateOrd(right)
    \/ DateOrd(right) <= DateOrd(d) /\ DateOrd(d) <= DateOrd(left)

\* Series.between(left, right), both ends inclusive.
Between(d, left, right) == DateOrd(left) <= DateOrd(d) /\ DateOrd(d) <= DateOrd(right)

\* sorted(df[col].dropna().unique()); the order of an option list is display
\* only, so the list is kept as a set.
DropNaOpts(df, col) == Range(DropNa(Col(df, col)))

mcc_opts(df) == DropNaOpts(df, "merchant_category_code")
pos_opts(df) == DropNaOpts(df, "pos_entry_desc")
mn_opts(df)  == DropNaOpts(df, "merchant_name")
ft_opts(df)  == { ft \in DropNaOpts(df, "fraud_type") : ft # "" }
cty_opts(df) == DropNaOpts(df, "merchant_country_code")

\* IsinIf with an empty include-set excluding every row.
IsinIf_EmptyExcludes(v, sel) == v \in sel

\* df[col].isin(sel) if sel else True
IsinIf(v, sel) == IF sel # {} THEN v \in sel ELSE TRUE

\* mask without the fraud-type term.
mask_NoFraudType(df, w) ==
    [i \in DOMAIN df |->
        /\ Between(DtDate(df[i].transaction_date_time), w.start_date, w.end_date)
        /\ IsinIf(df[i].merchant_category_code, w.mcc_sel)
        /\ IsinIf(df[i].pos_entry_desc,         w.pos_sel)
        /\ IsinIf(df[i].merchant_name,          w.mn_sel)
        /\ IsinIf(df[i].merchant_country_code,  w.cty_sel)]

mask(df, w) ==
    [i \in DOMAIN df |->
        /\ Between(DtDate(df[i].transaction_date_time), w.start_date, w.end_date)
        /\ IsinIf(df[i].merchant_category_code, w.mcc_sel)
        /\ IsinIf(df[i].pos_entry_desc,         w.pos_sel)
        /\ IsinIf(df[i].merchant_name,          w.mn_sel)
        /\ IsinIf(df[i].fraud_type,             w.ft_sel)
        /\ IsinIf(df[i].merchant_country_code,  w.cty_sel)]

\* View with the date and month helper columns written to the view itself.
View_WithHelperColumns(df, w) ==
    LET v == BoolIndex(df, mask(df, w))
    IN  [i \in DOMAIN v |->
            ("date"  :> DtDate(v[i].transaction_date_time)) @@
            ("month" :> ToPeriodM(v[i].transaction_date_time)) @@ v[i]]

View(df, w) == BoolIndex(df, mask(df, w))

\* view[view["fraud"] == 1].copy() with the date and month columns added to
\* the copy.
FraudView(v) ==
    LET sub == BoolIndex(v, [i \in DOMAIN v |-> v[i].fraud = 1])
    IN  [i \in DOMAIN sub |->
            ("date"  :> DtDate(sub[i].transaction_date_time)) @@
            ("month" :> ToPeriodM(sub[i].transaction_date_time)) @@ sub[i]]

\* groupby(["date", "month"]).agg(count, sum).reset_index(), then the two
\* groupby("month").cumsum() columns.
Daily(fv) ==
    LET keycol == [i \in DOMAIN fv |-> <<fv[i].date, fv[i].month>>]
        keys   == Range(keycol)
        \* sorted by (date, month); the month of a key is the month of its date
        order  == SortBy(keys, [k \in keys |-> DateOrd(k[1])])
        agg    == [j \in DOMAIN order |->
                     LET g == GroupRows(fv, keycol, order[j])
                     IN  [date |-> order[j][1], month |-> order[j][2],
                          fraud_volume |-> Len(Col(g, "fraud")),
                          fraud_value  |-> SeqSum(Col(g, "transaction_amount"))]]
        months == Col(agg, "month")
        zero   == [m \in Range(months) |-> 0]
        cumvol == GroupCumSum(months, Col(agg, "fraud_volume"), zero)
        cumval == GroupCumSum(months, Col(agg, "fraud_value"), zero)
    IN  [j \in DOMAIN agg |->
            [date |-> agg[j].date, month |-> agg[j].month,
             fraud_volume |-> agg[j].fraud_volume,
             fraud_value  |-> agg[j].fraud_value,
             month_cum_volume |-> cumvol[j],
             month_cum_value  |-> cumval[j]]]

\* view.groupby(<date of timestamp>)["fraud"].mean().mul(100)
DailyRate(v) ==
    LET keycol == [i \in DOMAIN v |-> DtDate(v[i].transaction_date_time)]
        keys   == Range(keycol)
        order  == SortBy(keys, [k \in keys |-> DateOrd(k)])
    IN  [j \in DOMAIN order |->
            [key   |-> order[j],
             value |-> MeanMul100(Col(GroupRows(v, keycol, order[j]), "fraud"))]]

\* view.groupby("merchant_country_code")["fraud"].mean().mul(100)
\*     .sort_values(ascending=False).head(15); groupby drops missing keys.
ByCountry(v) ==
    LET keycol == Col(v, "merchant_country_code")
        keys   == Range(DropNa(keycol))
        order  == SortBy(keys, [k \in keys |-> StrOrd(k)])
        rates  == [j \in DOMAIN order |->
                     [key   |-> order[j],
                      value |-> MeanMul100(Col(GroupRows(v, keycol, order[j]), "fraud"))]]
    IN  HeadRows(SortValuesDesc(rates), TopN)

\* fraud_view.groupby([<month>, "pos_entry_desc"])["transaction_amount"].sum()
MonthPosSum(fv) ==
    LET keycol == [i \in DOMAIN fv |->
                     <<ToPeriodM(fv[i].transaction_date_time), fv[i].pos_entry_desc>>]
        keys   == { k \in Range(keycol) : k[2] # Null }
    IN  [k \in keys |-> SeqSum(Col(GroupRows(fv, keycol, k), "transaction_amount"))]

\* FraudMonthPos without fill_value: absent combinations hold no value.
FraudMonthPos_NoFill(fv) ==
    [Unstack(MonthPosSum(fv), 0) EXCEPT !.cell = MonthPosSum(fv)]

FraudMonthPos(fv) == Unstack(MonthPosSum(fv), 0)

\* Rough lat/lon centroids, written as in the source.
country_coords ==
    ("GB" :> <<"54.0", "-2.0">>) @@ ("US" :> <<"39.5", "-98.35">>) @@ ("CA" :> <<"56.1", "-106.3">>) @@
    ("FR" :> <<"46.2", "2.2">>) @@ ("DE" :> <<"51.1", "10.4">>) @@ ("NL" :> <<"52.1", "5.3">>) @@
    ("IE" :> <<"53.1", "-8.2">>) @@ ("ES" :> <<"40.5", "-3.7">>) @@ ("IT" :> <<"42.8", "12.5">>) @@
    ("AU" :> <<"-25.3", "133.8">>) @@ ("NZ" :> <<"-41.0", "174.0">>) @@ ("IN" :> <<"22.6", "78.9">>) @@
    ("CN" :> <<"35.9", "104.2">>) @@ ("JP" :> <<"36.2", "138.2">>) @@ ("HK" :> <<"22.3", "114.2">>) @@
    ("SG" :> <<"1.3", "103.8">>) @@ ("KR" :> <<"36.5", "127.9">>) @@ ("MY" :> <<"4.2", "101.9">>) @@
    ("TH" :> <<"15.9", "100.9">>) @@ ("PH" :> <<"12.9", "122.9">>) @@ ("BR" :> <<"-14.2", "-51.9">>) @@
    ("MX" :> <<"23.6", "-102.6">>) @@ ("AR" :> <<"-38.4", "-63.6">>) @@ ("ZA" :> <<"-28.5", "24.7">>) @@
    ("KE" :> <<"-0.0", "37.9">>) @@ ("NG" :> <<"9.1", "8.7">>) @@ ("GH" :> <<"7.9", "-1.0">>) @@
    ("EG" :> <<"26.8", "29.8">>) @@ ("RU" :> <<"61.5", "105.3">>) @@ ("UA" :> <<"48.4", "31.1">>) @@
    ("IR" :> <<"32.5", "53.7">>) @@ ("PK" :> <<"30.4", "69.3">>) @@ ("TR" :> <<"38.9", "35.2">>) @@
    ("AE" :> <<"24.2", "54.7">>) @@ ("SA" :> <<"24.1", "45.0">>) @@ ("QA" :> <<"25.3", "51.2">>) @@
    ("CO" :> <<"4.6", "-74.1">>) @@ ("CL" :> <<"-30.0", "-71.0">>) @@ ("PE" :> <<"-9.2", "-75.0">>) @@
    ("ID" :> <<"-2.3", "118.0">>)

\* country_coords.get(c, (None, None))
CoordsGet(c) == IF c \in DOMAIN country_coords THEN country_coords[c] ELSE <<Null, Null>>

\* groupby("merchant_country_code")["fraud"].count().reset_index() with
\* the lat and lon columns attached.
CountryVolJoined(fv) ==
    LET keycol == Col(fv, "merchant_country_code")
        keys   == Range(DropNa(keycol))
        order  == SortBy(keys, [k \in keys |-> StrOrd(k)])
    IN  [j \in DOMAIN order |->
            [merchant_country_code |-> order[j],
             fraud_volume |-> Len(Col(GroupRows(fv, keycol, order[j]), "fraud")),
             lat |-> CoordsGet(order[j])[1],
             lon |-> CoordsGet(order[j])[2]]]

\* CountryVol without dropna(subset=["lat", "lon"]).
CountryVol_KeepUnmapped(fv) == CountryVolJoined(fv)

\* country_vol after dropna(subset=["lat", "lon"]).
CountryVol(fv) ==
    LET vol == CountryVolJoined(fv)
    IN  BoolIndex(vol, [j \in DOMAIN vol |-> vol[j].lat # Null /\ vol[j].lon # Null])

-----------------------------------------------------------------------------
(* src/data/app.py                                                         *)

\* pd.read_csv(...): every row and column of the file.
load_data_basic(f) == f

\* df[col].unique(): the distinct values, a missing value among them.
Unique(df, col) == Range(Col(df, col))

\* sorted(values) compares the values pairwise: NaN (a float) against a
\* string raises TypeError; a list holding NaN alone is returned as is.
SortedRaises(vals) == Null \in vals /\ vals # {Null}

txn_types(df) == Unique(df, "transaction_type_desc")
countries(df) == Unique(df, "merchant_country_code")

mask_basic(df, w) ==
    [i \in DOMAIN df |->
        /\ Between(DtDate(df[i].transaction_date_time), w.start_date, w.end_date)
        /\ IsinIf(df[i].transaction_type_desc, w.chosen_txn)
        /\ IsinIf(df[i].merchant_country_code, w.chosen_cty)]

ViewBasic(df, w) == BoolIndex(df, mask_basic(df, w))

-----------------------------------------------------------------------------
(* Script executions                                                       *)

Widgets(s, e, mcc, pos, mn, ft, cty, txn, ccty) ==
    [start_date |-> s, end_date |-> e,
     mcc_sel |-> mcc, pos_sel |-> pos, mn_sel |-> mn, ft_sel |-> ft, cty_sel |-> cty,
     chosen_txn |-> txn, chosen_cty |-> ccty]

NoWidgets == Widgets(Null, Null, {}, {}, {}, {}, {}, {}, {})

\* The widgets of a first execution: the whole date range, nothing selected.
DefaultWidgets(df) == Widgets(date_min(df), date_max(df), {}, {}, {}, {}, {}, {}, {})

\* A rerun follows the change of one widget; the other widgets keep their
\* values.  The values the changed sidebar widget of src/app.py can take:
AppWidgetChoices(df, w) ==
    { [w EXCEPT !.start_date = s, !.end_date = e] : s \in DateChoices, e \in DateChoices }
    \cup { [w EXCEPT !.mcc_sel = x] : x \in SUBSET mcc_opts(df) }
    \cup { [w EXCEPT !.pos_sel = x] : x \in SUBSET pos_opts(df) }
    \cup { [w EXCEPT !.mn_sel  = x] : x \in SUBSET mn_opts(df) }
    \cup { [w EXCEPT !.ft_sel  = x] : x \in SUBSET ft_opts(df) }
    \cup { [w EXCEPT !.cty_sel = x] : x \in SUBSET cty_opts(df) }

\* The same for the sidebar of src/data/app.py.
BasicWidgetChoices(df, w) ==
    { [w EXCEPT !.start_date = s, !.end_date = e] : s \in DateChoices, e \in DateChoices }
    \cup { [w EXCEPT !.chosen_txn = x] : x \in SUBSET txn_types(df) }
    \cup { [w EXCEPT !.chosen_cty = x] : x \in SUBSET countries(df) }

EmptyPivot == Unstack(<<>>, 0)

\* Lines 59-154 of src/app.py for table df and widget values w.
RunApp(df, w) ==
    LET v  == View(df, w)
        fv == FraudView(v)
    IN  /\ widgets' = w
        /\ view' = v
        /\ fraud_view' = fv
        /\ daily' = Daily(fv)
        /\ daily_rate' = DailyRate(v)
        /\ by_country' = ByCountry(v)
        /\ fraud_month_pos' = FraudMonthPos(fv)
        /\ country_vol' = CountryVol(fv)

\* Lines 52-83 of src/data/app.py for table df and widget values w.
RunBasic(df, w) ==
    LET v == ViewBasic(df, w)
    IN  /\ widgets' = w
        /\ view' = v
        /\ daily_rate' = DailyRate(v)
        /\ by_country' = ByCountry(v)
        /\ UNCHANGED <<fraud_view, daily, fraud_month_pos, country_vol>>

Init ==
    /\ script \in {"app", "basic"}
    /\ file \in Tables
    /\ cache = NoEntry
    /\ pc = "start"
    /\ widgets = NoWidgets
    /\ view = <<>>
    /\ fraud_view = <<>>
    /\ daily = <<>>
    /\ daily_rate = <<>>
    /\ by_country = <<>>
    /\ fraud_month_pos = EmptyPivot
    /\ country_vol = <<>>

\* First execution of src/app.py: load_data runs (cache miss).  The script
\* stops when load_data raises, and when the loaded table is empty
\* (date_min is NaN, which st.date_input rejects as a default).
FirstRunApp ==
    /\ script = "app"
    /\ pc = "start"
    /\ LET r == load_data(file)
       IN  IF r.raised
           THEN /\ pc' = "error"
                /\ UNCHANGED <<cache, widgets, outputs>>
           ELSE /\ cache' = <<r.df>>
                /\ IF r.df = <<>>
                   THEN /\ pc' = "error"
                        /\ UNCHANGED <<widgets, outputs>>
                   ELSE /\ pc' = "ran"
                        /\ RunApp(r.df, DefaultWidgets(r.df))
    /\ UNCHANGED <<script, file>>

\* A widget changed: src/app.py runs again, load_data is served from the
\* cache.
RerunApp ==
    /\ script = "app"
    /\ pc = "ran"
    /\ \E w \in AppWidgetChoices(cache[1], widgets) : RunApp(cache[1], w)
    /\ UNCHANGED <<script, file, cache, pc>>

\* First execution of src/data/app.py.  The script stops when sorted()
\* raises on an option list.
FirstRunBasic ==
    /\ script = "basic"
    /\ pc = "start"
    /\ LET df == load_data_basic(file)
       IN  /\ cache' = <<df>>
           /\ IF SortedRaises(txn_types(df)) \/ SortedRaises(countries(df))
              THEN /\ pc' = "error"
                   /\ UNCHANGED <<widgets, outputs>>
              ELSE /\ pc' = "ran"
                   /\ RunBasic(df, DefaultWidgets(df))
    /\ UNCHANGED <<script, file>>

RerunBasic ==
    /\ script = "basic"
    /\ pc = "ran"
    /\ \E w \in BasicWidgetChoices(cache[1], widgets) : RunBasic(cache[1], w)
    /\ UNCHANGED <<script, file, cache, pc>>

Next == FirstRunApp \/ RerunApp \/ FirstRunBasic \/ RerunBasic

Spec == Init /\ [][Next]_vars

-----------------------------------------------------------------------------
(* Vocabulary of the properties, stated on the tables themselves           *)

Ran == pc = "ran"

Loaded == cache # NoEntry

\* The loaded table, once there is one.
LoadedTable == cache[1]

\* a <= b on calendar days, field by field.
DayLeq(a, b) ==
    \/ a.y < b.y
    \/ a.y = b.y /\ a.m < b.m
    \/ a.y = b.y /\ a.m = b.m /\ a.d <= b.d

DayOf(r) == [y |-> r.transaction_date_time.y, m |-> r.transaction_date_time.m,
             d |-> r.transaction_date_time.d]
MonthOfRow(r) == [y |-> r.transaction_date_time.y, m |-> r.transaction_date_time.m]

\* The filter dimensions of the running script: <<column, include-set>>.
Dimensions ==
    IF script = "app"
    THEN { <<"merchant_category_code", widgets.mcc_sel>>,
           <<"pos_entry_desc",         widgets.pos_sel>>,
           <<"merchant_name",          widgets.mn_sel>>,
           <<"fraud_type",             widgets.ft_sel>>,
           <<"merchant_country_code",  widgets.cty_sel>> }
    ELSE { <<"transaction_type_desc", widgets.chosen_txn>>,
           <<"merchant_country_code", widgets.chosen_cty>> }

\* Row r meets the filter criteria in force.
Satisfies(r) ==
    /\ DayLeq(widgets.start_date, DayOf(r))
    /\ DayLeq(DayOf(r), widgets.end_date)
    /\ \A dim \in Dimensions : dim[2] # {} => r[dim[1]] \in dim[2]

\* t is the subsequence of s at the positions idx, in order.
IsSubseqAt(t, s, idx) ==
    /\ Len(t) = Cardinality(idx)
    /\ \A i \in idx : t[Cardinality({ j \in idx : j <= i })] = s[i]

\* Positions of the fraud rows of the view.
FraudIdx == { i \in DOMAIN view : view[i].fraud = 1 }

RECURSIVE SumAmount(_)
SumAmount(idx) ==
    IF idx = {} THEN 0
    ELSE LET i == CHOOSE x \in idx : TRUE
         IN  view[i].transaction_amount + SumAmount(idx \ {i})

VelocitySpellings == { "VELOCITY", "Velocity", "velocity" }

-----------------------------------------------------------------------------
(* C1 *)

\* C1: the filtered view is exactly the rows of the loaded table, in input
\* order, whose day lies in [start, end] (both inclusive) and whose value in
\* every dimension with a non-empty include-set is in that set; an empty
\* include-set constrains nothing.
C1_ViewIsFilteredSubsequence ==
    Ran => IsSubseqAt(view, LoadedTable, { i \in DOMAIN LoadedTable : Satisfies(LoadedTable[i]) })

\* A rerun with one constrained and one unconstrained dimension that keeps
\* a row on the end day and drops another row.
C1_Witness ==
    /\ Ran
    /\ script = "app"
    /\ widgets.cty_sel # {}
    /\ widgets.pos_sel = {}
    /\ view # <<>>
    /\ Len(view) < Len(LoadedTable)
    /\ \E i \in DOMAIN view : DayOf(view[i]) = widgets.end_date

-----------------------------------------------------------------------------
(* C2 *)

\* C2: once a dimension's include-set is non-empty, no row with a missing
\* value in that dimension is in the filtered view, for every include-set
\* the option lists allow.
C2_NullExcludedWhenConstrained ==
    Ran => \A dim \in Dimensions :
               dim[2] # {} => \A i \in DOMAIN view : view[i][dim[1]] # Null

-----------------------------------------------------------------------------
(* C3 *)

\* C3: with the start day strictly after the end day the script completes,
\* the view is empty and so is every aggregate derived from it.
C3_InvertedRangeIsEmpty ==
    (Ran /\ ~DayLeq(widgets.start_date, widgets.end_date)) =>
        /\ view = <<>>
        /\ fraud_view = <<>>
        /\ daily = <<>>
        /\ daily_rate = <<>>
        /\ by_country = <<>>
        /\ fraud_month_pos.index = <<>>
        /\ fraud_month_pos.columns = <<>>
        /\ DOMAIN fraud_month_pos.cell = {}
        /\ country_vol = <<>>

\* An inverted range over a table with a fraud row, with an include-set set.
C3_Witness ==
    /\ Ran
    /\ script = "app"
    /\ ~DayLeq(widgets.start_date, widgets.end_date)
    /\ widgets.pos_sel # {}
    /\ \E i \in DOMAIN LoadedTable : LoadedTable[i].fraud = 1

-----------------------------------------------------------------------------
(* C4 *)

\* Fraud rows of the view in the month of day d, on or before d.
MonthToDate(d) ==
    { i \in FraudIdx : /\ MonthOfRow(view[i]) = [y |-> d.y, m |-> d.m]
                       /\ DayLeq(DayOf(view[i]), d) }

\* Fraud rows of the view in the month of day d.
WholeMonth(d) ==
    { i \in FraudIdx : MonthOfRow(view[i]) = [y |-> d.y, m |-> d.m] }

\* C4: the daily loss table has one row per day with a fraud row in the
\* view, in chronological order; month_cum_volume / month_cum_value are the
\* sums of fraud_volume / fraud_value over the rows of the same month up to
\* that day: the first row of a month carries its own value and the last
\* row of a month the month's total.
C4_MonthlyCumulative ==
    (Ran /\ script = "app") =>
        /\ { daily[j].date : j \in DOMAIN daily } = { DayOf(view[i]) : i \in FraudIdx }
        /\ \A j \in DOMAIN daily : \A k \in DOMAIN daily :
               j < k => (DayLeq(daily[j].date, daily[k].date) /\ daily[j].date # daily[k].date)
        /\ \A j \in DOMAIN daily :
               LET d == daily[j].date
                   first == j = 1 \/ daily[j - 1].month # daily[j].month
                   last  == j = Len(daily) \/ daily[j + 1].month # daily[j].month
               IN  /\ daily[j].month = [y |-> d.y, m |-> d.m]
                   /\ daily[j].fraud_volume = Cardinality({ i \in FraudIdx : DayOf(view[i]) = d })
                   /\ daily[j].fraud_value = SumAmount({ i \in FraudIdx : DayOf(view[i]) = d })
                   /\ daily[j].month_cum_volume = Cardinality(MonthToDate(d))
                   /\ daily[j].month_cum_value = SumAmount(MonthToDate(d))
                   /\ first => /\ daily[j].month_cum_volume = daily[j].fraud_volume
                               /\ daily[j].month_cum_value = daily[j].fraud_value
                   /\ last  => /\ daily[j].month_cum_volume = Cardinality(WholeMonth(d))
                               /\ daily[j].month_cum_value = SumAmount(WholeMonth(d))

\* Two days of one month: the second row carries the sum of both.
C4_Witness ==
    /\ Ran
    /\ script = "app"
    /\ Len(daily) = 2
    /\ daily[1].month = daily[2].month
    /\ daily[2].month_cum_value = daily[1].fraud_value + daily[2].fraud_value
    /\ daily[2].month_cum_value > daily[2].fraud_value

-----------------------------------------------------------------------------
(* C5 *)

\* The entries of a rate aggregate are keyed by distinct keys, each held by
\* a row of the view, and valued 100 * fraud rows / rows of that key.
RateAggregateOk(agg, keyOf) ==
    /\ \A a \in DOMAIN agg : \A b \in DOMAIN agg : agg[a].key = agg[b].key => a = b
    /\ \A a \in DOMAIN agg :
           LET rows == { i \in DOMAIN view : keyOf[i] = agg[a].key }
               frd  == { i \in rows : view[i].fraud = 1 }
               v    == agg[a].value
           IN  /\ rows # {}
               /\ v.den > 0
               /\ v.num * Cardinality(rows) = 100 * Cardinality(frd) * v.den
               /\ 0 <= v.num
               /\ v.num <= 100 * v.den

\* C5: a rate aggregate (daily fraud rate, fraud rate by country) holds a
\* key only if a row of the view has it, valued 100 * fraud rows / rows of
\* the key: no division by zero, every value in [0, 100], and an empty view
\* gives empty aggregates.
C5_RateAggregates ==
    Ran =>
        /\ RateAggregateOk(daily_rate, [i \in DOMAIN view |-> DayOf(view[i])])
        /\ RateAggregateOk(by_country, [i \in DOMAIN view |-> view[i].merchant_country_code])
        /\ view = <<>> => (daily_rate = <<>> /\ by_country = <<>>)

\* A country with one fraud row out of two: 50 %.
C5_Witness ==
    /\ Ran
    /\ \E a \in DOMAIN by_country :
           /\ by_country[a].value.den = 2
           /\ by_country[a].value.num = 100
    /\ \E a \in DOMAIN daily_rate : daily_rate[a].value.den = 2

-----------------------------------------------------------------------------
(* C6 *)

\* Fraud rows of the view with month p and POS entry mode c.
MonthPosRows(p, c) ==
    { i \in FraudIdx : MonthOfRow(view[i]) = p /\ view[i].pos_entry_desc = c }

\* The columns and the cells of the pivot, for the months it has as rows.
PivotColumnsAndCells ==
    LET piv  == fraud_month_pos
        idx  == Range(piv.index)
        cols == Range(piv.columns)
    IN  /\ Len(piv.index) = Cardinality(idx)
        /\ Len(piv.columns) = Cardinality(cols)
        /\ cols = { view[i].pos_entry_desc : i \in FraudIdx } \ {Null}
        /\ DOMAIN piv.cell = idx \X cols
        /\ \A p \in idx : \A c \in cols :
               /\ piv.cell[<<p, c>>] = SumAmount(MonthPosRows(p, c))
               /\ MonthPosRows(p, c) = {} => piv.cell[<<p, c>>] = 0

\* C6 as stated: the pivot has one row per calendar month of the fraud rows
\* of the view and one column per POS entry mode observed among them, and
\* every cell is defined: the sum of transaction_amount of the fraud rows of
\* that month and mode, 0 when there is none.
C6_PivotAsStated ==
    (Ran /\ script = "app") =>
        /\ Range(fraud_month_pos.index) = { MonthOfRow(view[i]) : i \in FraudIdx }
        /\ PivotColumnsAndCells

\* C6 amended: the rows are the calendar months that have a fraud row with a
\* POS entry mode (a month whose fraud rows all lack the mode has no row);
\* columns and cells as stated.
C6_PivotAmended ==
    (Ran /\ script = "app") =>
        /\ Range(fraud_month_pos.index) =
               { MonthOfRow(view[i]) : i \in { k \in FraudIdx : view[k].pos_entry_desc # Null } }
        /\ PivotColumnsAndCells

\* Two months, two modes, and a combination no fraud row has: filled with 0.
C6_Witness ==
    /\ Ran
    /\ script = "app"
    /\ Len(fraud_month_pos.index) = 2
    /\ Len(fraud_month_pos.columns) = 2
    /\ \E k \in DOMAIN fraud_month_pos.cell :
           MonthPosRows(k[1], k[2]) = {} /\ fraud_month_pos.cell[k] = 0

-----------------------------------------------------------------------------
(* C7 *)

\* Fraud rows of the view in country c.
CountryFraudRows(c) == { i \in FraudIdx : view[i].merchant_country_code = c }

\* C7: the geographic output has exactly one point per country code that
\* occurs among the fraud rows of the view and is a key of country_coords,
\* with that country's fraud volume and the mapped (lat, lon); an unmapped
\* code gives no point and no error, and no point lacks lat or lon.
C7_GeoPoints ==
    (Ran /\ script = "app") =>
        /\ \A a \in DOMAIN country_vol : \A b \in DOMAIN country_vol :
               country_vol[a].merchant_country_code = country_vol[b].merchant_country_code
                   => a = b
        /\ { country_vol[a].merchant_country_code : a \in DOMAIN country_vol }
               = ({ view[i].merchant_country_code : i \in FraudIdx } \ {Null})
                     \cap DOMAIN country_coords
        /\ \A a \in DOMAIN country_vol :
               LET pt == country_vol[a]
               IN  /\ pt.fraud_volume = Cardinality(CountryFraudRows(pt.merchant_country_code))
                   /\ <<pt.lat, pt.lon>> = country_coords[pt.merchant_country_code]
                   /\ pt.lat # Null
                   /\ pt.lon # Null

\* Fraud in a mapped and in an unmapped country: one point, for the mapped.
C7_Witness ==
    /\ Ran
    /\ script = "app"
    /\ \E i \in FraudIdx : view[i].merchant_country_code = "ZZ"
    /\ "ZZ" \notin DOMAIN country_coords
    /\ Len(country_vol) = 1
    /\ country_vol[1].merchant_country_code = "GB"

-----------------------------------------------------------------------------
(* C8 *)

\* A row of the file without the two transaction-type columns.
WithoutTxnType(r) ==
    [c \in (DOMAIN r) \ {"transaction_type_code", "transaction_type_desc"} |-> r[c]]

\* C8: after load_data of src/app.py no loaded row has fraud type VELOCITY
\* in any letter case, every other row of the file (a missing fraud type
\* included) is retained in order, and neither the fraud-type option list
\* nor the fraud-type selection ever holds that value.
C8_VelocityExcluded ==
    (script = "app" /\ Loaded) =>
        /\ \A i \in DOMAIN LoadedTable : LoadedTable[i].fraud_type \notin VelocitySpellings
        /\ IsSubseqAt(LoadedTable, [i \in DOMAIN file |-> WithoutTxnType(file[i])],
                      { i \in DOMAIN file : file[i].fraud_type \notin VelocitySpellings })
        /\ ft_opts(LoadedTable) \cap VelocitySpellings = {}
        /\ widgets.ft_sel \cap VelocitySpellings = {}

\* A file with a mixed-case Velocity row and a row without fraud type: the
\* first is gone, the second is kept, and a fraud type is selected.
C8_Witness ==
    /\ Ran
    /\ script = "app"
    /\ \E i \in DOMAIN file : file[i].fraud_type = "Velocity"
    /\ \E i \in DOMAIN file : file[i].fraud_type = Null
    /\ \E i \in DOMAIN LoadedTable : LoadedTable[i].fraud_type = Null
    /\ Len(LoadedTable) < Len(file)

-----------------------------------------------------------------------------
(* C9 *)

HelperColumns == {"date", "month"}

\* The frames of one execution of src/app.py: the cached table is what the
\* single load returned, the view has the columns of the loaded table, and
\* the helper columns exist in the fraud-only copy alone.
FramesIntact ==
    (script = "app" /\ Loaded) =>
        /\ LoadedTable = load_data(file).df
        /\ \A i \in DOMAIN LoadedTable : (DOMAIN LoadedTable[i]) \cap HelperColumns = {}
        /\ \A i \in DOMAIN view : DOMAIN view[i] = DOMAIN LoadedTable[1]
        /\ \A i \in DOMAIN fraud_view :
               DOMAIN fraud_view[i] = (DOMAIN LoadedTable[1]) \cup HelperColumns

\* C9: over any sequence of reruns the cached table is never changed once
\* loaded (rows, order, columns, values), the view has the columns of the
\* loaded table, and the date and month helper columns are added to the
\* fraud-only copy, never to the view or the loaded table.
C9_CacheNeverMutated ==
    /\ [][Loaded => cache' = cache]_vars
    /\ []FramesIntact

\* A rerun with a selection, leaving a fraud-only copy with helper columns.
C9_Witness ==
    /\ Ran
    /\ script = "app"
    /\ widgets.cty_sel # {}
    /\ fraud_view # <<>>
    /\ Len(view) < Len(LoadedTable)

-----------------------------------------------------------------------------
(* C10 *)

\* The loaded table names a fraud type on fraud rows only.
FraudTypeOnlyOnFraud ==
    \A i \in DOMAIN LoadedTable : LoadedTable[i].fraud_type # Null => LoadedTable[i].fraud = 1

\* C10: in src/app.py, on a table whose fraud_type is set on fraud rows
\* only, a non-empty fraud-type include-set leaves fraud rows only in the
\* view (the view is its fraud-only subset), so every daily rate and every
\* country rate is exactly 100.
C10_FraudTypeFilterGivesRate100 ==
    (Ran /\ script = "app" /\ FraudTypeOnlyOnFraud /\ widgets.ft_sel # {}) =>
        /\ \A i \in DOMAIN view : view[i].fraud = 1
        /\ Len(fraud_view) = Len(view)
        /\ \A i \in DOMAIN fraud_view :
               [c \in DOMAIN view[i] |-> fraud_view[i][c]] = view[i]
        /\ \A a \in DOMAIN daily_rate :
               daily_rate[a].value.num = 100 * daily_rate[a].value.den
        /\ \A a \in DOMAIN by_country :
               by_country[a].value.num = 100 * by_country[a].value.den

\* A table with a non-fraud row in range, a fraud type selected, and a
\* non-empty view.
C10_Witness ==
    /\ Ran
    /\ script = "app"
    /\ FraudTypeOnlyOnFraud
    /\ widgets.ft_sel # {}
    /\ view # <<>>
    /\ \E i \in DOMAIN LoadedTable :
           /\ LoadedTable[i].fraud = 0
           /\ DayLeq(widgets.start_date, DayOf(LoadedTable[i]))
           /\ DayLeq(DayOf(LoadedTable[i]), widgets.end_date)
    /\ by_country # <<>>

====
